---- MODULE Spec2Model ----
(***************************************************************************)
(* Model of roboflow/util/prediction.py: Prediction, PredictionGroup and   *)
(* the rendering helpers.  Dictionaries are heap objects (heap[ref]), a    *)
(* Prediction holds a reference to the dictionary it was given, and every  *)
(* public operation is one action that records what it did in `last`.      *)
(***************************************************************************)
EXTENDS Integers, Sequences

\* Bounds of the model.
MaxLen == 2

\* roboflow.config
OBJECT_DETECTION_MODEL == "ObjectDetectionModel"
CLASSIFICATION_MODEL == "ClassificationModel"
PREDICTION_OBJECT == "Prediction"

Types == {OBJECT_DETECTION_MODEL, CLASSIFICATION_MODEL}
Paths == {"img.jpg", "other.jpg"}
\* What the file system and the network hold at a path when a plot call runs.
Envs == {"missing", "local", "url"}

\* Field values as Python sees them: a type name and a printed form.
PyInt(s) == [type |-> "int", repr |-> s]
PyFloat(s) == [type |-> "float", repr |-> s]
PyStr(s) == [type |-> "str", repr |-> s]

\* The field mappings callers start from (the inference API's entries).
Detection == [x |-> PyInt("10"), y |-> PyInt("10"),
              width |-> PyInt("4"), height |-> PyInt("6")]
Classification(confidence) == [top |-> PyStr("cat"), confidence |-> confidence]
InitHeaps ==
  {<<Detection, Classification(c)>> : c \in {PyStr("0.9"), PyFloat("0.9")}}
Refs == DOMAIN (CHOOSE h \in InitHeaps : TRUE)

\* Python values that can be handed to a PredictionGroup.  A Prediction object
\* holds nothing but the reference self.json_prediction, so a Prediction is
\* identified with the dictionary reference it wraps.
PredVal(r) == [kind |-> "Prediction", id |-> r]
DictVal(r) == [kind |-> "dict", id |-> r]
NoneVal == [kind |-> "NoneType", id |-> 0]
TypeName(v) == v.kind

VARIABLES heap, preds, group, last
vars == <<heap, preds, group, last>>

NoError == "none"
ImageMissing == "Exception: Image does not exist"
CannotAdd == "Exception: Cannot add type"
TypeWarning == "different type"
PathWarning == "different image path"

Ok(v) == [err |-> NoError, val |-> <<v>>]
Err(e) == [err |-> e, val |-> <<>>]

\* d[k] = v on a dictionary
SetItem(d, k, v) == [f \in (DOMAIN d) \cup {k} |-> IF f = k THEN v ELSE d[f]]

\* value[key] for the values of the model: Prediction.__getitem__, dict
\* subscription, and the TypeError of subscripting None.
Subscript(h, v, key) ==
  IF v.kind \in {"Prediction", "dict"}
  THEN IF key \in DOMAIN h[v.id] THEN Ok(h[v.id][key]) ELSE Err("KeyError")
  ELSE Err("TypeError")

Ev(c, a) == [call |-> c, arg |-> a]

check_image_url(env) == env = "url"

\* exception_check without its raise
exception_check_NeverRaises(env, image_path_check) ==
  [err |-> NoError,
   events |-> IF image_path_check = <<>> THEN <<>>
              ELSE IF env = "local" THEN <<Ev("os.path.exists", 0)>>
              ELSE <<Ev("os.path.exists", 0), Ev("check_image_url", 0)>>]

\* exception_check(image_path_check); <<>> is an absent argument
exception_check(env, image_path_check) ==
  IF image_path_check # <<>>
  THEN IF env = "local"
       THEN [err |-> NoError, events |-> <<Ev("os.path.exists", 0)>>]
       ELSE [err |-> IF check_image_url(env) THEN NoError ELSE ImageMissing,
             events |-> <<Ev("os.path.exists", 0), Ev("check_image_url", 0)>>]
  ELSE [err |-> NoError, events |-> <<>>]

plot_image(env, image_path) ==
  LET c == exception_check(env, <<image_path>>)
      open == IF env = "local"
              THEN <<Ev("Image.open", 0)>>
              ELSE <<Ev("Image.open", 0), Ev("requests.get", 0), Ev("Image.open", 0)>>
  IN IF c.err # NoError
     THEN c
     ELSE [err |-> NoError,
           events |-> c.events \o open \o <<Ev("plt.subplots", 0), Ev("axes.imshow", 0)>>]

IsNumber(v) == v.type \in {"int", "float"}

\* plot_annotation(axes, prediction, stroke) for the member at position idx
plot_annotation(h, prediction, idx) ==
  LET t == Subscript(h, prediction, "prediction_type")
      F(k) == Subscript(h, prediction, k)
  IN IF t.err # NoError THEN [err |-> t.err, events |-> <<>>]
     ELSE IF t.val[1] = OBJECT_DETECTION_MODEL
     THEN IF \E k \in {"height", "width", "x", "y"} : F(k).err # NoError
          THEN [err |-> "KeyError", events |-> <<>>]
          ELSE IF \E k \in {"height", "width", "x", "y"} : ~IsNumber(F(k).val[1])
          THEN [err |-> "TypeError", events |-> <<>>]
          ELSE [err |-> NoError, events |-> <<Ev("axes.add_patch", idx)>>]
     ELSE IF t.val[1] = CLASSIFICATION_MODEL
     THEN IF F("top").err # NoError THEN [err |-> "KeyError", events |-> <<>>]
          ELSE IF F("top").val[1].type # "str" THEN [err |-> "TypeError", events |-> <<>>]
          ELSE IF F("confidence").err # NoError THEN [err |-> "KeyError", events |-> <<>>]
          ELSE IF F("confidence").val[1].type # "str"
          THEN [err |-> "TypeError", events |-> <<>>]
          ELSE [err |-> NoError, events |-> <<Ev("axes.set_title", idx)>>]
     ELSE [err |-> NoError, events |-> <<>>]

NoGroup == [alive |-> FALSE, predictions |-> <<>>, base_image_path |-> "",
            base_prediction_type |-> ""]
EmptyGroup == [alive |-> TRUE, predictions |-> <<>>, base_image_path |-> "",
               base_prediction_type |-> ""]

\* __exception_check raising on a type mismatch instead of warning
GroupExceptionCheck_Strict(g, is_prediction_check, image_path_check, prediction_type_check) ==
  IF is_prediction_check # NoneVal /\ TypeName(is_prediction_check) # PREDICTION_OBJECT
  THEN [err |-> CannotAdd, warnings |-> <<>>]
  ELSE IF prediction_type_check # <<>>
          /\ Len(g.predictions) > 0
          /\ prediction_type_check[1] # g.base_prediction_type
  THEN [err |-> CannotAdd, warnings |-> <<>>]
  ELSE [err |-> NoError,
        warnings |-> IF image_path_check # <<>> /\ g.base_image_path # image_path_check[1]
                     THEN <<PathWarning>> ELSE <<>>]

\* PredictionGroup.__exception_check; an absent keyword argument is NoneVal
\* (is_prediction_check) or <<>> (the two string arguments).  The type name is
\* compared with PREDICTION_OBJECT by `is not`; both are the interned
\* identifier string, so the comparison is modelled by equality of names.
GroupExceptionCheck(g, is_prediction_check, image_path_check, prediction_type_check) ==
  IF is_prediction_check # NoneVal /\ TypeName(is_prediction_check) # PREDICTION_OBJECT
  THEN [err |-> CannotAdd, warnings |-> <<>>]
  ELSE [err |-> NoError,
        warnings |->
          (IF prediction_type_check # <<>>
              /\ Len(g.predictions) > 0
              /\ prediction_type_check[1] # g.base_prediction_type
           THEN <<TypeWarning>> ELSE <<>>)
          \o
          (IF image_path_check # <<>> /\ g.base_image_path # image_path_check[1]
           THEN <<PathWarning>> ELSE <<>>)]

\* The loop of PredictionGroup.__init__ from position index on.
RECURSIVE InitLoop(_, _, _, _, _)
InitLoop(h, args, index, g, w) ==
  IF index > Len(args) THEN [err |-> NoError, g |-> g, warnings |-> w]
  ELSE LET prediction == args[index]
           ip == Subscript(h, prediction, "image_path")
           pt == Subscript(h, prediction, "prediction_type")
           g1 == IF index = 1
                 THEN [g EXCEPT !.base_image_path = ip.val[1],
                                !.base_prediction_type = pt.val[1]]
                 ELSE g
           chk == GroupExceptionCheck(g1, prediction, <<>>, <<>>)
       IN IF index = 1 /\ ip.err # NoError THEN [err |-> ip.err, g |-> g, warnings |-> w]
          ELSE IF index = 1 /\ pt.err # NoError THEN [err |-> pt.err, g |-> g, warnings |-> w]
          ELSE IF chk.err # NoError THEN [err |-> chk.err, g |-> g1, warnings |-> w]
          ELSE InitLoop(h, args, index + 1,
                        [g1 EXCEPT !.predictions = Append(@, prediction)],
                        w \o chk.warnings)

GroupInit(h, args) == InitLoop(h, args, 1, EmptyGroup, <<>>)

\* PredictionGroup.add_prediction
GroupAdd(h, g, prediction) ==
  LET pt == Subscript(h, prediction, "prediction_type")
      c1 == GroupExceptionCheck(g, prediction, <<>>, <<pt.val[1]>>)
      ip == Subscript(h, prediction, "image_path")
      c2 == GroupExceptionCheck(g, NoneVal, <<ip.val[1]>>, <<>>)
  IN IF pt.err # NoError THEN [err |-> pt.err, g |-> g, warnings |-> <<>>]
     ELSE IF c1.err # NoError THEN [err |-> c1.err, g |-> g, warnings |-> c1.warnings]
     ELSE IF ip.err # NoError THEN [err |-> ip.err, g |-> g, warnings |-> c1.warnings]
     ELSE IF Len(g.predictions) > 0
     THEN [err |-> c2.err,
           g |-> IF c2.err = NoError
                 THEN [g EXCEPT !.predictions = Append(@, prediction)] ELSE g,
           warnings |-> c1.warnings \o c2.warnings]
     ELSE [err |-> NoError,
           g |-> [g EXCEPT !.base_image_path = ip.val[1],
                           !.predictions = Append(@, prediction)],
           warnings |-> c1.warnings]

BlankLast == [op |-> "", outcome |-> NoError, warnings |-> <<>>, events |-> <<>>,
              args |-> <<>>, path |-> "", type |-> "", env |-> ""]

Init ==
  /\ heap \in InitHeaps
  /\ preds = {}
  /\ group = NoGroup
  /\ last = BlankLast

\* Prediction.__init__ that keeps the default prediction type
PredictionInit_DefaultType(h, ref, image_path, prediction_type) ==
  [h EXCEPT ![ref] = SetItem(SetItem(@, "image_path", image_path),
                             "prediction_type", OBJECT_DETECTION_MODEL)]

\* Prediction.__init__ on the dictionary at ref
PredictionInit(h, ref, image_path, prediction_type) ==
  [h EXCEPT ![ref] = SetItem(SetItem(@, "image_path", image_path),
                             "prediction_type", prediction_type)]

\* p = Prediction(json_prediction, image_path, prediction_type)
NewPrediction(ref, image_path, prediction_type) ==
  /\ heap' = PredictionInit(heap, ref, image_path, prediction_type)
  /\ preds' = preds \cup {ref}
  /\ last' = [BlankLast EXCEPT !.op = "Prediction", !.args = <<PredVal(ref)>>,
                               !.path = image_path, !.type = prediction_type]
  /\ UNCHANGED group

RawDict == DictVal(CHOOSE r \in Refs : TRUE)
Vals == {PredVal(r) : r \in preds} \cup {RawDict, NoneVal}

ArgLists == {<<>>} \cup {<<a>> : a \in Vals} \cup {<<a, b>> : a \in Vals, b \in Vals}

\* g = PredictionGroup(*args); when it returns normally the members are args
NewGroup(args) ==
  \E r \in {GroupInit(heap, args)} :
     /\ group' = IF r.err = NoError THEN r.g ELSE group
     /\ last' = [BlankLast EXCEPT !.op = "PredictionGroup", !.outcome = r.err,
                                  !.warnings = r.warnings]
     /\ UNCHANGED <<heap, preds>>

\* g.add_prediction(prediction)
AddPrediction(prediction) ==
  /\ group.alive
  /\ Len(group.predictions) < MaxLen
  /\ \E r \in {GroupAdd(heap, group, prediction)} :
        /\ group' = r.g
        /\ last' = [BlankLast EXCEPT !.op = "add_prediction", !.outcome = r.err,
                                     !.warnings = r.warnings, !.args = <<prediction>>]
  /\ UNCHANGED <<heap, preds>>

Entries == {<<>>} \cup {<<a>> : a \in Refs} \cup {<<a, b>> : a \in Refs, b \in Refs}

\* The loop of create_prediction_group: one Prediction per entry, in order.
RECURSIVE CreateLoop(_, _, _, _, _, _)
CreateLoop(h, entries, index, image_path, prediction_type, prediction_list) ==
  IF index > Len(entries) THEN [h |-> h, prediction_list |-> prediction_list]
  ELSE CreateLoop(PredictionInit(h, entries[index], image_path, prediction_type),
                  entries, index + 1, image_path, prediction_type,
                  Append(prediction_list, PredVal(entries[index])))

\* g = PredictionGroup.create_prediction_group({'predictions': entries}, ...)
CreatePredictionGroup(entries, image_path, prediction_type) ==
  \E c \in {CreateLoop(heap, entries, 1, image_path, prediction_type, <<>>)} :
  \E r \in {GroupInit(c.h, c.prediction_list)} :
     /\ heap' = c.h
     /\ preds' = preds \cup {entries[i] : i \in DOMAIN entries}
     /\ group' = IF r.err = NoError THEN r.g ELSE group
     /\ last' = [BlankLast EXCEPT !.op = "create_prediction_group", !.outcome = r.err,
                                  !.warnings = r.warnings,
                                  !.args = [i \in DOMAIN entries |-> DictVal(entries[i])],
                                  !.path = image_path, !.type = prediction_type]

\* Runs the steps of a call in order and stops at the first that raises.
RECURSIVE RunSteps(_, _, _)
RunSteps(steps, index, events) ==
  IF index > Len(steps) THEN [err |-> NoError, events |-> events]
  ELSE IF steps[index].err # NoError
  THEN [err |-> steps[index].err, events |-> events \o steps[index].events]
  ELSE RunSteps(steps, index + 1, events \o steps[index].events)

Show == [err |-> NoError, events |-> <<Ev("plt.show", 0)>>]

\* Prediction.plot
PredictionPlot(h, env, self) ==
  LET image_path == Subscript(h, self, "image_path").val[1]
  IN RunSteps(<<exception_check(env, <<image_path>>),
                plot_image(env, image_path),
                plot_annotation(h, self, 0),
                Show>>, 1, <<>>)

\* PredictionGroup.plot
GroupPlot(h, env, g) ==
  IF Len(g.predictions) > 0
  THEN RunSteps(<<exception_check(env, <<g.base_image_path>>),
                  plot_image(env, g.base_image_path)>>
                \o [i \in DOMAIN g.predictions |-> plot_annotation(h, g.predictions[i], i)]
                \o <<Show>>, 1, <<>>)
  ELSE Show

\* Prediction.save: reads self['prediction_type'] and does nothing
PredictionSave(h, self) == Subscript(h, self, "prediction_type").err

\* PredictionGroup.__getitem__: list subscription
GroupGetItem(g, index) ==
  IF index.kind # "int" THEN Err("TypeError")
  ELSE IF index.i \in DOMAIN g.predictions THEN Ok(g.predictions[index.i])
  ELSE Err("IndexError")

\* PredictionGroup.save: reads self['prediction_type'] and does nothing
GroupSave(g) == GroupGetItem(g, [kind |-> "str", s |-> "prediction_type", i |-> 0]).err

\* p.plot()
PlotPrediction(ref, env) ==
  /\ ref \in preds
  /\ \E r \in {PredictionPlot(heap, env, PredVal(ref))} :
        last' = [BlankLast EXCEPT !.op = "Prediction.plot", !.outcome = r.err,
                                  !.events = r.events, !.env = env]
  /\ UNCHANGED <<heap, preds, group>>

\* g.plot()
PlotGroup(env) ==
  /\ group.alive
  /\ \E r \in {GroupPlot(heap, env, group)} :
        last' = [BlankLast EXCEPT !.op = "PredictionGroup.plot", !.outcome = r.err,
                                  !.events = r.events, !.env = env]
  /\ UNCHANGED <<heap, preds, group>>

\* p.save()
SavePrediction(ref) ==
  /\ ref \in preds
  /\ last' = [BlankLast EXCEPT !.op = "Prediction.save",
                               !.outcome = PredictionSave(heap, PredVal(ref))]
  /\ UNCHANGED <<heap, preds, group>>

\* g.save()
SaveGroup ==
  /\ group.alive
  /\ last' = [BlankLast EXCEPT !.op = "PredictionGroup.save", !.outcome = GroupSave(group)]
  /\ UNCHANGED <<heap, preds, group>>

Next ==
  \/ \E ref \in Refs, p \in Paths, t \in Types : NewPrediction(ref, p, t)
  \/ \E args \in ArgLists : NewGroup(args)
  \/ \E v \in Vals : AddPrediction(v)
  \/ \E entries \in Entries, p \in Paths, t \in Types :
        CreatePredictionGroup(entries, p, t)
  \/ \E ref \in Refs, env \in Envs : PlotPrediction(ref, env)
  \/ \E env \in Envs : PlotGroup(env)
  \/ \E ref \in Refs : SavePrediction(ref)
  \/ SaveGroup

Spec == Init /\ [][Next]_vars

(***************************************************************************)
(* Properties.  `last` describes the operation of the step that led to the *)
(* current state, so a state predicate over `last` speaks about the state  *)
(* right after that operation and an action formula over last' about the   *)
(* step itself.                                                            *)
(***************************************************************************)
Range(s) == {s[i] : i \in DOMAIN s}
Succeeded == last.outcome = NoError
ImagePathOf(h, v) == h[v.id]["image_path"]
PredictionTypeOf(h, v) == h[v.id]["prediction_type"]
IsPrediction(v) == v.kind = "Prediction"

\* The step put the first member into the group: a constructor call that
\* returned a non-empty group, or add_prediction on an empty group.
FirstMemberArrives ==
  /\ last'.outcome = NoError
  /\ group'.predictions # <<>>
  /\ \/ last'.op \in {"PredictionGroup", "create_prediction_group"}
     \/ last'.op = "add_prediction" /\ group.predictions = <<>>

\* add_prediction returned normally on a group that already had members.
LaterMemberArrives ==
  /\ last'.op = "add_prediction"
  /\ last'.outcome = NoError
  /\ group.predictions # <<>>

C1Step ==
  /\ FirstMemberArrives =>
       /\ group'.base_image_path = ImagePathOf(heap', group'.predictions[1])
       /\ group'.base_prediction_type = PredictionTypeOf(heap', group'.predictions[1])
  /\ LaterMemberArrives =>
       /\ group'.base_image_path = group.base_image_path
       /\ group'.base_prediction_type = group.base_prediction_type
\* C1: whenever the first member enters a group, through the constructor or
\* through add_prediction on an empty group, base_image_path and
\* base_prediction_type become that member's image_path and prediction_type,
\* and they keep those values while later members are added.
C1_BaseFromFirstMember == [][C1Step]_vars

\* Member i is a Prediction whose type or image differs from the first member's.
DiffersFromFirst(i) ==
  /\ IsPrediction(group.predictions[i])
  /\ \/ PredictionTypeOf(heap, group.predictions[i]) # PredictionTypeOf(heap, group.predictions[1])
     \/ ImagePathOf(heap, group.predictions[i]) # ImagePathOf(heap, group.predictions[1])

\* C2: every operation that puts a member into a group (the constructor with
\* several predictions, add_prediction on a non-empty group) emits a warning
\* when that member's prediction_type or image_path differs from the first
\* member's.
C2_WarnsOnEveryMismatch ==
  /\ (last.op = "PredictionGroup" /\ Succeeded
        /\ \E i \in 2..Len(group.predictions) : DiffersFromFirst(i))
       => last.warnings # <<>>
  /\ (last.op = "add_prediction" /\ Succeeded /\ Len(group.predictions) >= 2
        /\ DiffersFromFirst(Len(group.predictions)))
       => last.warnings # <<>>

C3Constructed ==
  last.op = "Prediction" =>
    /\ ImagePathOf(heap, last.args[1]) = last.path
    /\ PredictionTypeOf(heap, last.args[1]) = last.type
C3Kept ==
  \A r \in preds :
    /\ ImagePathOf(heap', PredVal(r)) = ImagePathOf(heap, PredVal(r))
    /\ PredictionTypeOf(heap', PredVal(r)) = PredictionTypeOf(heap, PredVal(r))
\* C3: a Prediction's json() holds the image_path and prediction_type it was
\* constructed with, right after construction and after every later operation.
C3_TagsFixedAtConstruction == []C3Constructed /\ [][C3Kept]_vars

C4NoForeignMember ==
  /\ \A i \in DOMAIN group.predictions : IsPrediction(group.predictions[i])
  /\ (last.op = "add_prediction" /\ ~IsPrediction(last.args[1])) => ~Succeeded
C4FailedAddKeepsGroup ==
  (last'.op = "add_prediction" /\ last'.outcome # NoError) => group' = group
\* C4: a value that is not a Prediction never becomes a member of a group:
\* the constructor and add_prediction raise, and a failed add_prediction
\* leaves the members and both base fields as they were.
C4_NonPredictionRejected == []C4NoForeignMember /\ [][C4FailedAddKeepsGroup]_vars

C5Step ==
  (/\ last'.op = "add_prediction"
   /\ group.predictions # <<>>
   /\ IsPrediction(last'.args[1])
   /\ PredictionTypeOf(heap, last'.args[1]) # group.base_prediction_type)
  => /\ last'.outcome = NoError
     /\ TypeWarning \in Range(last'.warnings)
     /\ group'.predictions = Append(group.predictions, last'.args[1])
     /\ Len(group'.predictions) = Len(group.predictions) + 1
\* C5: add_prediction of a Prediction whose prediction_type differs from the
\* base type of a non-empty group raises nothing, emits the type warning and
\* appends the Prediction as the last member (the length grows by one).
C5_MismatchedTypeWarnsAndAppends == [][C5Step]_vars
C5_Witness ==
  /\ last.op = "add_prediction" /\ Succeeded
  /\ Len(group.predictions) >= 2
  /\ group.predictions[Len(group.predictions)] = last.args[1]
  /\ PredictionTypeOf(heap, last.args[1]) # group.base_prediction_type
  /\ TypeWarning \in Range(last.warnings)

\* Every member of g is a Prediction with image path P and prediction type T.
AllShare(h, g, P, T) ==
  \A i \in DOMAIN g.predictions :
    /\ IsPrediction(g.predictions[i])
    /\ ImagePathOf(h, g.predictions[i]) = P
    /\ PredictionTypeOf(h, g.predictions[i]) = T

C6Step ==
  \A P \in Paths, T \in Types :
    AllShare(heap', group', P, T) =>
      /\ FirstMemberArrives =>
           group'.base_image_path = P /\ last'.warnings = <<>>
      /\ (LaterMemberArrives /\ group.base_image_path = P) =>
           group'.base_image_path = P /\ last'.warnings = <<>>
\* C6: in a group whose members all have one image path and one prediction
\* type, the first member makes base_image_path that path, every further
\* add_prediction with that path and type leaves it so, and none of these
\* operations emits a warning.
C6_SharedPathNoWarning == [][C6Step]_vars

C7Step ==
  last'.op = "create_prediction_group" =>
    /\ last'.outcome = NoError
    /\ Len(group'.predictions) = Len(last'.args)
    /\ \A i \in DOMAIN last'.args :
         /\ group'.predictions[i] = PredVal(last'.args[i].id)
         /\ heap'[last'.args[i].id] =
              SetItem(SetItem(heap[last'.args[i].id], "image_path", last'.path),
                      "prediction_type", last'.type)
\* C7: create_prediction_group on n entries returns a group of n members
\* where member i wraps entry i, carrying the entry's fields with image_path
\* and prediction_type set to the arguments.
C7_CreateKeepsCountAndOrder == [][C7Step]_vars
C7_Witness ==
  /\ last.op = "create_prediction_group" /\ Succeeded
  /\ Len(last.args) = 2
  /\ last.args[1] # last.args[2]
  /\ Len(group.predictions) = 2
  /\ "top" \in DOMAIN heap[group.predictions[1].id]

RenderingCalls ==
  {"Image.open", "requests.get", "plt.subplots", "axes.imshow",
   "axes.add_patch", "axes.set_title", "plt.show"}
CallsOf(calls) == SelectSeq(last.events, LAMBDA e : e.call \in calls)

\* C8: Prediction.plot on an image path that is neither a local file nor a
\* resolvable URL raises the existence error before any rendering call.
C8_MissingImageFailsBeforeRendering ==
  (last.op = "Prediction.plot" /\ last.env = "missing") =>
    /\ last.outcome = ImageMissing
    /\ CallsOf(RenderingCalls) = <<>>
C8_Witness ==
  /\ last.op = "Prediction.plot"
  /\ last.env = "missing"
  /\ last.events # <<>>

\* A member that meets the data model: a Prediction with the numeric box
\* fields (object detection) or with top and confidence (classification).
WellFormed(v) ==
  /\ IsPrediction(v)
  /\ PredictionTypeOf(heap, v) = OBJECT_DETECTION_MODEL =>
       /\ {"x", "y", "width", "height"} \subseteq DOMAIN heap[v.id]
       /\ \A k \in {"x", "y", "width", "height"} : IsNumber(heap[v.id][k])
  /\ PredictionTypeOf(heap, v) = CLASSIFICATION_MODEL =>
       /\ {"top", "confidence"} \subseteq DOMAIN heap[v.id]
       /\ heap[v.id]["top"].type = "str"
       /\ heap[v.id]["confidence"].type \in {"str", "int", "float"}

\* C9: PredictionGroup.plot on an empty group only displays; on a non-empty
\* group it fails before any load or draw when the base image does not
\* resolve, and otherwise loads the image once, draws one annotation per
\* member in member order and then displays.
C9_GroupPlotOrder ==
  last.op = "PredictionGroup.plot" =>
    IF group.predictions = <<>>
    THEN Succeeded /\ last.events = <<Ev("plt.show", 0)>>
    ELSE IF last.env = "missing"
    THEN last.outcome = ImageMissing /\ CallsOf(RenderingCalls) = <<>>
    ELSE (\A i \in DOMAIN group.predictions : WellFormed(group.predictions[i])) =>
           /\ Succeeded
           /\ Len(CallsOf({"axes.imshow"})) = 1
           /\ LET n == Len(group.predictions)
                  e == last.events
              IN /\ Len(e) > n
                 /\ e[Len(e)] = Ev("plt.show", 0)
                 /\ \A i \in 1..n :
                      /\ e[Len(e) - n - 1 + i].call \in {"axes.add_patch", "axes.set_title"}
                      /\ e[Len(e) - n - 1 + i].arg = i
                 /\ Len(CallsOf({"axes.add_patch", "axes.set_title", "plt.show"})) = n + 1

C10SameOutcome ==
  last.op = "PredictionGroup.save" =>
    /\ Succeeded
    /\ \A r \in preds : last.outcome = PredictionSave(heap, PredVal(r))
C10NoEffect ==
  last'.op \in {"Prediction.save", "PredictionGroup.save"} =>
    UNCHANGED <<heap, preds, group>>
\* C10: save on a PredictionGroup ends as save on a Prediction does (it
\* returns normally), and neither changes a group or a field mapping.
C10_GroupSaveIsStub == []C10SameOutcome /\ [][C10NoEffect]_vars
====
